---- MODULE Spec2Model ----
(***************************************************************************)
(* Model of linkedin-scraper/src/main.py: the driver main(), the Search    *)
(* Harvester search_google(), the Company Site Scraper                     *)
(* scrape_company_website() and the Team Page Scraper scrape_team_page().  *)
(*                                                                         *)
(* Text is a sequence of tokens.  A token is an indivisible piece of a     *)
(* Python string; the tokenisation is fine enough that every needle the    *)
(* code searches for ('http', 'google.', 'team', 'manager', ...) is a      *)
(* sequence of whole tokens, so startswith / in / lower / strip / urlparse *)
(* / urljoin are computed on tokens the way Python computes them on        *)
(* characters.  An optional value (a missing attribute, find() returning   *)
(* None) is a sequence of length 0 or 1.                                   *)
(***************************************************************************)
EXTENDS Integers, Sequences, FiniteSets, TLC

VARIABLES
    search_queries,     \* actor_input['search_queries'], line 29
    max_companies,      \* actor_input['max_companies'], line 37
    pc,                 \* where main is: "query", "company", "home", "links", "team", "done"
    qi,                 \* index of query in search_queries, line 52
    companies,          \* line 59
    ci,                 \* index of company in companies, line 61
    all_contacts,       \* line 47
    processed_domains,  \* line 48
    contact_info,       \* line 75, optional
    result,             \* scrape_company_website's result, line 139
    all_links,          \* line 174
    ai,                 \* index of link in all_links, line 176
    pushes,             \* the arguments of the Actor.push_data calls so far, line 79
    delayed,            \* an asyncio.sleep has completed since the last client.get
    nfetch,             \* number of client.get calls so far
    last,               \* the last client.get: its kind, its request and whether it succeeded
    visits,             \* domains scrape_company_website was called for, in call order
    team_calls,         \* urls scrape_team_page was called with during the current visit
    team_response,      \* response to the last team-page fetch of the current visit, optional
    arg,                \* input of a function applied on its own
    ret                 \* its output

mainvars ==
    <<search_queries, max_companies, pc, qi, companies, ci, all_contacts,
      processed_domains, contact_info, result, all_links, ai, pushes, delayed,
      nfetch, last, visits, team_calls, team_response>>

fnvars == <<arg, ret>>

vars == <<mainvars, fnvars>>

-----------------------------------------------------------------------------
(* Python str operations on token sequences *)

\* str.lower() of one token
LowerTok(t) ==
    CASE t = "Google"   -> "google"
      [] t = "LinkedIn" -> "linkedin"
      [] t = "Shop"     -> "shop"
      [] t = "Team"     -> "team"
      [] t = "About"    -> "about"
      [] t = "Contact"  -> "contact"
      [] t = "Manager"  -> "manager"
      [] t = "CEO"      -> "ceo"
      [] OTHER          -> t

\* s.lower()
Lower(s) == [i \in DOMAIN s |-> LowerTok(s[i])]

\* sub in s
Contains(s, sub) ==
    \E i \in 0..(Len(s) - Len(sub)) : SubSeq(s, i + 1, i + Len(sub)) = sub

\* s.startswith(p)
StartsWith(s, p) == Len(s) >= Len(p) /\ SubSeq(s, 1, Len(p)) = p

\* index of the first occurrence of token t in s at or after position from, 0 if none
RECURSIVE IndexFrom(_, _, _)
IndexFrom(s, t, from) ==
    IF from > Len(s) THEN 0
    ELSE IF s[from] = t THEN from
    ELSE IndexFrom(s, t, from + 1)

Rep(x, n) == [i \in 1..n |-> x]

-----------------------------------------------------------------------------
(* urllib.parse *)

\* urlparse(url).netloc: the tokens between '://' and the next '/';
\* empty when the url has no '://' authority part
Netloc(url) ==
    LET a == IndexFrom(url, "://", 1)
    IN  IF a = 0 \/ IndexFrom(url, "/", 1) \in 1..(a - 1) THEN <<>>
        ELSE LET e == IndexFrom(url, "/", a + 1)
             IN  SubSeq(url, a + 1, IF e = 0 THEN Len(url) ELSE e - 1)

\* urlparse raises ValueError("Invalid IPv6 URL") on an unbalanced bracket in the netloc
UrlparseRaises(url) ==
    LET n == Netloc(url)
    IN  (IndexFrom(n, "[", 1) # 0) # (IndexFrom(n, "]", 1) # 0)

-----------------------------------------------------------------------------
(* bs4 *)

\* str.strip(): drop leading and trailing whitespace tokens
RECURSIVE LStrip(_)
LStrip(s) == IF s # <<>> /\ Head(s) = " " THEN LStrip(Tail(s)) ELSE s

RECURSIVE RStrip(_)
RStrip(s) == IF s # <<>> /\ s[Len(s)] = " " THEN RStrip(SubSeq(s, 1, Len(s) - 1)) ELSE s

Strip(s) == RStrip(LStrip(s))

\* elem.find(tag): the first matching descendant, as an optional
Find(elems) == IF elems = <<>> THEN <<>> ELSE <<Head(elems)>>

-----------------------------------------------------------------------------
(* search_google *)

skip_domains ==
    << <<"google", ".">>, <<"youtube", ".">>, <<"facebook", ".">>,
       <<"linkedin", ".">>, <<"twitter", ".">>, <<"instagram", ".">> >>

\* the request line 89 builds: the query and num=max_results
SearchUrl(query, max_results) == [kind |-> "search", q |-> query, num |-> max_results]

\* the loop body with the domain compared as written, not lower-cased
ParseResult_no_lower(res) ==
    LET link_elem == Find(res.anchors)
    IN  IF link_elem = <<>> \/ link_elem[1].href = <<>> \/ link_elem[1].href[1] = <<>>
        THEN <<>>
        ELSE LET url == link_elem[1].href[1]
             IN  IF ~StartsWith(url, <<"http">>) THEN <<>>
                 ELSE IF UrlparseRaises(url) THEN <<>>
                 ELSE LET domain == Netloc(url)
                      IN  IF \E k \in DOMAIN skip_domains : Contains(domain, skip_domains[k])
                          THEN <<>>
                          ELSE LET title_elem == res.h3
                                   title == IF title_elem # <<>> THEN Strip(title_elem[1])
                                            ELSE domain
                               IN  << [name |-> title, url |-> url] >>

\* body of the loop over results, lines 97-126: the candidates one result block
\* contributes (none on a continue or on a swallowed exception, else one)
ParseResult(res) ==
    LET link_elem == Find(res.anchors)
    IN  IF link_elem = <<>> \/ link_elem[1].href = <<>> \/ link_elem[1].href[1] = <<>>
        THEN <<>>
        ELSE LET url == link_elem[1].href[1]
             IN  IF ~StartsWith(url, <<"http">>) THEN <<>>
                 ELSE IF UrlparseRaises(url) THEN <<>>
                 ELSE LET domain == Lower(Netloc(url))
                      IN  IF \E k \in DOMAIN skip_domains : Contains(domain, skip_domains[k])
                          THEN <<>>
                          ELSE LET title_elem == res.h3
                                   title == IF title_elem # <<>> THEN Strip(title_elem[1])
                                            ELSE domain
                               IN  << [name |-> title, url |-> url] >>

\* for result in results, lines 96-126
RECURSIVE SearchLoop(_, _, _)
SearchLoop(results, i, found) ==
    IF i > Len(results) THEN found
    ELSE SearchLoop(results, i + 1, found \o ParseResult(results[i]))

\* the try block, lines 88-128: exc when client.get raises
SearchTry(max_results, response) ==
    IF ~response.ok THEN [exc |-> TRUE, companies |-> <<>>]
    ELSE [exc |-> FALSE, companies |-> SearchLoop(response.blocks, 1, <<>>)]

\* search_google without the handler of lines 130-131
search_google_unhandled(max_results, response) ==
    LET t == SearchTry(max_results, response)
    IN  [raised |-> t.exc, value |-> t.companies]

\* search_google with its except handler, lines 84-133
search_google(max_results, response) ==
    LET t == SearchTry(max_results, response)
    IN  [raised |-> FALSE, value |-> t.companies]

-----------------------------------------------------------------------------
(* re *)

\* the tokens the email pattern of lines 159 and 242 matches
EmailToks == {"jane@shop.nl", "info@shop.nl", "bob@web.nl"}

\* the tokens the phone pattern of line 164 matches
PhoneToks == {"06-12345678", "+31 20 1234567"}

\* ''.join(p) of the two groups findall captures for a phone match: the prefix
\* and the last repetition of the digit group
PhoneJoin(t) == IF t = "06-12345678" THEN "07" ELSE "+316"

\* re.findall(pattern, text): the matches in text order
RECURSIVE Findall(_, _)
Findall(toks, text) ==
    IF text = <<>> THEN <<>>
    ELSE (IF Head(text) \in toks THEN <<Head(text)>> ELSE <<>>) \o Findall(toks, Tail(text))

Range(s) == {s[i] : i \in DOMAIN s}

\* list(set(xs))[:n]: the set when it has at most n elements, otherwise any n of
\* them (the iteration order of a set is not specified)
SetSlice(S, n) ==
    IF Cardinality(S) <= n THEN {S} ELSE {T \in SUBSET S : Cardinality(T) = n}

RECURSIVE Flatten(_)
Flatten(lines) == IF lines = <<>> THEN <<>> ELSE Head(lines) \o Flatten(Tail(lines))

-----------------------------------------------------------------------------
(* scrape_team_page *)

manager_keywords ==
    << <<"manager">>, <<"director">>, <<"head", " ", "of">>, <<"ceo">>, <<"cmo">>,
       <<"coo">>, <<"e-commerce">>, <<"marketing">>, <<"logistics">>, <<"operations">> >>

\* the slice bound of line 220
TeamSectionLimit == 20

\* lines = [line.strip() for line in text.split('\n') if line.strip()], line 237
RECURSIVE NonBlankLines(_)
NonBlankLines(raw) ==
    IF raw = <<>> THEN <<>>
    ELSE (IF Strip(Head(raw)) # <<>> THEN <<Strip(Head(raw))>> ELSE <<>>)
         \o NonBlankLines(Tail(raw))

\* 'name' in member: the key is present, whatever its value
Truthy_key_present(opt) == opt # <<>>

\* member.get('name'): the value of the key, falsy when missing or ''
Truthy(opt) == opt # <<>> /\ opt[1] # <<>>

\* lines 221-248 for one section: the members it appends (none or one).
\* section.text is section.get_text() split at '\n'
ScrapeSection(section) ==
    LET name_elem == Find(section.heads)
        name == IF name_elem # <<>> THEN <<Strip(name_elem[1])>> ELSE <<>>
        text == section.text
        qualified == \E k \in DOMAIN manager_keywords, l \in DOMAIN text :
                         Contains(Lower(text[l]), manager_keywords[k])
        lines == NonBlankLines(text)
        position == IF Len(lines) >= 2
                    THEN (IF name # <<>> /\ name[1] = lines[1] THEN <<lines[2]>>
                          ELSE <<lines[1]>>)
                    ELSE <<>>
        emails == Findall(EmailToks, Flatten(text))
        email == IF emails # <<>> THEN <<emails[1]>> ELSE <<>>
        member == [name |-> name, position |-> position, email |-> email]
    IN  IF qualified /\ Truthy(member.name) THEN <<member>> ELSE <<>>

\* for section in team_sections[:20], lines 220-248
RECURSIVE TeamLoop(_, _, _)
TeamLoop(team_sections, i, team_members) ==
    IF i > Len(team_sections) \/ i > TeamSectionLimit THEN team_members
    ELSE TeamLoop(team_sections, i + 1, team_members \o ScrapeSection(team_sections[i]))

\* the try block, lines 209-248
TeamTry(response) ==
    IF ~response.ok THEN [exc |-> TRUE, team_members |-> <<>>]
    ELSE [exc |-> FALSE, team_members |-> TeamLoop(response.sections, 1, <<>>)]

\* scrape_team_page with its except handler, lines 205-253
scrape_team_page(response) ==
    LET t == TeamTry(response)
    IN  [raised |-> FALSE, value |-> t.team_members]

-----------------------------------------------------------------------------
(* link classification in scrape_company_website *)

about_keywords ==
    << <<"team">>, <<"about">>, <<"over", "-", "ons">>, <<"about", "-", "us">> >>

contact_keywords == << <<"contact">>, <<"contact", "eer">> >>

\* any(keyword in href or keyword in text for keyword in keywords), lines 181 and 191
AnyKeyword(keywords, link) ==
    LET href == Lower(link.href)
        text == Lower(link.text)
    IN  \E k \in DOMAIN keywords : Contains(href, keywords[k]) \/ Contains(text, keywords[k])

\* position of the last '/' token of s, 0 if none
RECURSIVE LastSlash(_)
LastSlash(s) ==
    IF s = <<>> THEN 0
    ELSE IF s[Len(s)] = "/" THEN Len(s)
    ELSE LastSlash(SubSeq(s, 1, Len(s) - 1))

\* urljoin(base, href) for an absolute http(s) base
urljoin(base, href) ==
    LET a    == IndexFrom(base, "://", 1)
        root == SubSeq(base, 1, a + Len(Netloc(base)))
        path == SubSeq(base, Len(root) + 1, Len(base))
        h    == IndexFrom(href, "://", 1)
    IN  IF href = <<>> THEN base
        ELSE IF h # 0 /\ IndexFrom(href, "/", 1) \notin 1..(h - 1) THEN href
        ELSE IF Head(href) = "/" THEN root \o href
        ELSE IF path = <<>> THEN root \o <<"/">> \o href
        ELSE root \o SubSeq(path, 1, LastSlash(path)) \o href

-----------------------------------------------------------------------------
(* inputs *)

Url(scheme, host, path) == scheme \o <<"://">> \o host \o path

U_shop    == Url(<<"http", "s">>, <<"shop", ".", "nl">>, <<>>)
U_shopAb  == Url(<<"http", "s">>, <<"shop", ".", "nl">>, <<"/", "about">>)
U_Shop    == Url(<<"http">>, <<"Shop", ".", "nl">>, <<"/">>)
U_web     == Url(<<"http">>, <<"web", ".", "nl">>, <<>>)
U_google  == Url(<<"http", "s">>, <<"www", ".", "google", ".", "com">>, <<"/", "maps">>)
U_linked  == Url(<<"http", "s">>, <<"LinkedIn", ".", "com">>, <<"/", "company">>)
U_bad     == Url(<<"http">>, <<"[", "web">>, <<>>)
U_ftp     == Url(<<"ftp">>, <<"web", ".", "nl">>, <<>>)
U_rel     == <<"/", "search">>

A(url) == [href |-> <<url>>]
A_nohref == [href |-> <<>>]

Block(anchors, h3) == [anchors |-> anchors, h3 |-> h3]

B_shop   == Block(<<A(U_shop), A(U_google)>>, << <<" ", "Acme", " ">> >>)
B_shopAb == Block(<<A(U_shopAb)>>, <<>>)
B_Shop   == Block(<<A(U_Shop)>>, << <<"Shop">> >>)
B_web    == Block(<<A(U_web)>>, << <<"Web">> >>)
B_google == Block(<<A(U_google)>>, << <<"Maps">> >>)
B_linked == Block(<<A(U_linked)>>, << <<"Acme">> >>)
B_bad    == Block(<<A(U_bad)>>, <<>>)
B_ftp    == Block(<<A(U_ftp), A(U_web)>>, << <<"Web">> >>)
B_rel    == Block(<<A(U_rel)>>, <<>>)
B_nohref == Block(<<A_nohref, A(U_web)>>, << <<"Web">> >>)
B_empty  == Block(<<>>, << <<"Acme">> >>)

BlockKinds ==
    {B_shop, B_shopAb, B_Shop, B_web, B_google, B_linked, B_bad, B_ftp, B_rel,
     B_nohref, B_empty}

MaxBlocks == 3

RECURSIVE SeqsUpTo(_, _)
SeqsUpTo(S, n) ==
    IF n = 0 THEN {<<>>}
    ELSE LET shorter == SeqsUpTo(S, n - 1)
         IN  shorter \cup {Append(q, x) : q \in shorter, x \in S}

\* max_results of the only call, line 59 (and the default of line 84)
max_results_main == 20

OkResponse(blocks) == [ok |-> TRUE, blocks |-> blocks]
FailedResponse == [ok |-> FALSE, blocks |-> <<>>]

\* a response with more result blocks than main asks for
LongResponses ==
    {OkResponse(Rep(b, max_results_main + 1)) : b \in {B_shop, B_google}}
    \cup {OkResponse(Rep(B_web, max_results_main) \o <<B_linked, B_shop>>)}

SearchResponses ==
    {FailedResponse}
    \cup {OkResponse(bs) : bs \in SeqsUpTo(BlockKinds, MaxBlocks)}
    \cup LongResponses

MaxResultsInputs == {0, 1, 2, max_results_main}

\* anchors of a company page
L(href, text) == [href |-> <<href>>, text |-> text]
L_nohref(text) == [href |-> <<>>, text |-> text]

Section(heads, text) == [heads |-> heads, text |-> text]

S_full ==
    Section(<< <<" ", "Jane", " ">> >>,
            << <<"Jane">>, <<" ">>, <<"E-commerce", " ", "Manager">>, <<"jane@shop.nl">> >>)
S_noname  == Section(<<>>, << <<"Logistics", " ", "manager">>, <<"bob@web.nl">> >>)
S_blank   == Section(<< <<" ">>, <<"Bob">> >>, << <<" ">>, <<"Bob">>, <<"director">> >>)
S_nokw    == Section(<< <<"Bob">> >>, << <<"Bob">>, <<"Intern">> >>)
S_posfirst == Section(<< <<"Bob">> >>, << <<"head", " ", "of", " ", "sales">>, <<"Bob">> >>)
S_oneline == Section(<< <<"CEO">> >>, << <<"CEO">> >>)

SectionKinds == {S_full, S_noname, S_blank, S_nokw, S_posfirst, S_oneline}

OkTeam(sections) == [ok |-> TRUE, sections |-> sections]
FailedTeam == [ok |-> FALSE, sections |-> <<>>]

\* team pages with more sections than the slice of line 220 keeps
LongTeamPages ==
    {OkTeam(Rep(S_full, TeamSectionLimit) \o <<S_posfirst>>),
     OkTeam(<<S_nokw, S_oneline>> \o Rep(S_posfirst, TeamSectionLimit))}

TeamResponses ==
    {FailedTeam, OkTeam(<<>>),
     OkTeam(<<S_noname, S_full, S_blank, S_nokw, S_posfirst, S_oneline>>)}
    \cup LongTeamPages

OkHome(text, anchors) == [ok |-> TRUE, text |-> text, anchors |-> anchors]
FailedHome == [ok |-> FALSE, text |-> <<>>, anchors |-> <<>>]

H_empty == OkHome(<<"Welcome">>, <<L_nohref(<<"Team">>), L(<<"/">>, <<"Home">>)>>)
H_mail ==
    OkHome(<<"mail", " ", "info@shop.nl", " ", "info@shop.nl", " ", "jane@shop.nl",
             " ", "06-12345678">>,
           <<L(<<"/", "contact">>, <<"Mail">>), L(<<"/", "contact", "eer">>, <<"More">>),
             L_nohref(<<"About">>)>>)
H_team ==
    OkHome(<<"Welcome">>,
           <<L(<<"/">>, <<"Home">>), L(<<"/", "about", "-", "us">>, <<"Who">>),
             L(<<"staff">>, <<"Team">>),
             L(<<"http", "s", "://", "LinkedIn", ".", "com", "/", "company", "/", "shop">>, <<"in">>),
             L(<<"/", "over", "-", "ons", "/", "contact">>, <<"Info">>),
             L(<<"/", "team">>, <<"Contact">>)>>)
H_both ==
    OkHome(<<"call", " ", "+31 20 1234567">>,
           <<L(<<>>, <<"About", " ", "&", " ", "Contact">>), L(<<"/", "team">>, <<"Team">>)>>)

HomeResponses == {FailedHome, H_empty, H_mail, H_team, H_both}

SearchResponsesMain ==
    {FailedResponse,
     OkResponse(<<B_google, B_shop, B_shopAb, B_web>>),
     OkResponse(<<B_web, B_linked, B_Shop>>),
     OkResponse(<<B_shopAb, B_nohref, B_web, B_shop>>)}

MaxQueries == 2
MaxCap == 2

QueryLists == {SubSeq(<<"q1", "q2", "q3", "q4">>, 1, n) : n \in 0..MaxQueries}

-----------------------------------------------------------------------------
(* main and scrape_company_website *)

NoResult ==
    [company_name |-> <<>>, website |-> <<>>, emails |-> {}, phones |-> {},
     linkedin |-> <<>>, team_members |-> <<>>, about_url |-> <<>>, contact_url |-> <<>>]

NoFetch == [kind |-> "none", key |-> <<>>, ok |-> TRUE]

InitMain ==
    /\ search_queries \in QueryLists
    /\ max_companies \in 0..MaxCap
    /\ pc = "query"
    /\ qi = 1
    /\ companies = <<>>
    /\ ci = 1
    /\ all_contacts = <<>>
    /\ processed_domains = {}
    /\ contact_info = <<>>
    /\ result = NoResult
    /\ all_links = <<>>
    /\ ai = 1
    /\ pushes = <<>>
    /\ delayed = FALSE
    /\ nfetch = 0
    /\ last = NoFetch
    /\ visits = <<>>
    /\ team_calls = <<>>
    /\ team_response = <<>>

Init ==
    /\ InitMain
    /\ arg = <<>>
    /\ ret = <<>>

\* the test with > for >=
CapReached_off_by_one(contacts, cap) == Len(contacts) > cap

\* len(all_contacts) >= max_companies, lines 53 and 62
CapReached(contacts, cap) == Len(contacts) >= cap

\* the domain is not recorded
MarkProcessed_forgets(domains, domain) == domains

\* processed_domains.add(domain), line 69
MarkProcessed(domains, domain) == domains \cup {domain}

\* the sleep is left out
Sleep_skipped(d) == d

\* await asyncio.sleep(1), lines 74 and 186: a delay has elapsed when it returns
Sleep(d) == TRUE

\* the accumulated list is pushed instead of the new record
PushArg_whole(contacts, info) == contacts

\* the argument of Actor.push_data, line 79
PushArg(contacts, info) == <<info>>

\* the record is returned whatever it holds
HasContactInfo_always(r) == TRUE

\* the condition of line 196
HasContactInfo(r) == r.emails # {} \/ r.phones # {} \/ r.team_members # <<>>

\* the first-seen guard is left out
AboutUnset_always(r) == TRUE

\* not result['about_url'], line 183
AboutUnset(r) == ~Truthy(r.about_url)

\* not result['contact_url'], line 192
ContactUnset(r) == ~Truthy(r.contact_url)

\* lines 191-193 for one link
ContactStep(r, link) ==
    IF AnyKeyword(contact_keywords, link) /\ ContactUnset(r)
    THEN [r EXCEPT !.contact_url = <<urljoin(r.website, link.href)>>]
    ELSE r

\* soup.find_all('a', href=True), line 174
HasHref(a) == a.href # <<>>

\* soup.find_all('a', href=re.compile(r'linkedin\.com/company/', re.I)), line 169
IsLinkedin(a) ==
    HasHref(a) /\ Contains(Lower(a.href[1]), <<"linkedin", ".", "com", "/", "company", "/">>)

\* for query in search_queries is exhausted, line 52
QueriesExhausted ==
    /\ pc = "query"
    /\ qi > Len(search_queries)
    /\ pc' = "done"
    /\ UNCHANGED <<search_queries, max_companies, qi, companies, ci, all_contacts,
                   processed_domains, contact_info, result, all_links, ai, pushes,
                   delayed, nfetch, last, visits, team_calls, team_response, fnvars>>

\* break of lines 53-54
BreakAtQuery ==
    /\ pc = "query"
    /\ qi <= Len(search_queries)
    /\ CapReached(all_contacts, max_companies)
    /\ pc' = "done"
    /\ UNCHANGED <<search_queries, max_companies, qi, companies, ci, all_contacts,
                   processed_domains, contact_info, result, all_links, ai, pushes,
                   delayed, nfetch, last, visits, team_calls, team_response, fnvars>>

\* companies = await search_google(client, query, max_results=20), line 59
Search ==
    /\ pc = "query"
    /\ qi <= Len(search_queries)
    /\ ~CapReached(all_contacts, max_companies)
    /\ \E response \in SearchResponsesMain :
          LET r == search_google(max_results_main, response)
          IN  /\ pc' = IF r.raised THEN "crashed" ELSE "company"
              /\ companies' = r.value
              /\ last' = [kind |-> "search",
                          key |-> SearchUrl(search_queries[qi], max_results_main),
                          ok |-> response.ok]
    /\ ci' = 1
    /\ nfetch' = nfetch + 1
    /\ delayed' = FALSE
    /\ UNCHANGED <<search_queries, max_companies, qi, all_contacts, processed_domains,
                   contact_info, result, all_links, ai, pushes, visits, team_calls,
                   team_response, fnvars>>

\* for company in companies is exhausted, line 61
CompaniesExhausted ==
    /\ pc = "company"
    /\ ci > Len(companies)
    /\ qi' = qi + 1
    /\ pc' = "query"
    /\ UNCHANGED <<search_queries, max_companies, companies, ci, all_contacts,
                   processed_domains, contact_info, result, all_links, ai, pushes,
                   delayed, nfetch, last, visits, team_calls, team_response, fnvars>>

\* break of lines 62-63
BreakAtCompany ==
    /\ pc = "company"
    /\ ci <= Len(companies)
    /\ CapReached(all_contacts, max_companies)
    /\ qi' = qi + 1
    /\ pc' = "query"
    /\ UNCHANGED <<search_queries, max_companies, companies, ci, all_contacts,
                   processed_domains, contact_info, result, all_links, ai, pushes,
                   delayed, nfetch, last, visits, team_calls, team_response, fnvars>>

\* continue of lines 65-67
SkipProcessed ==
    /\ pc = "company"
    /\ ci <= Len(companies)
    /\ ~CapReached(all_contacts, max_companies)
    /\ Netloc(companies[ci].url) \in processed_domains
    /\ ci' = ci + 1
    /\ UNCHANGED <<search_queries, max_companies, pc, qi, companies, all_contacts,
                   processed_domains, contact_info, result, all_links, ai, pushes,
                   delayed, nfetch, last, visits, team_calls, team_response, fnvars>>

\* lines 65-75 up to the homepage fetch: mark the domain, sleep, enter
\* scrape_company_website (lines 139-148)
StartVisit ==
    /\ pc = "company"
    /\ ci <= Len(companies)
    /\ ~CapReached(all_contacts, max_companies)
    /\ LET company == companies[ci]
           domain == Netloc(company.url)
       IN  /\ domain \notin processed_domains
           /\ processed_domains' = MarkProcessed(processed_domains, domain)
           /\ visits' = Append(visits, domain)
           /\ result' = [NoResult EXCEPT !.company_name = company.name,
                                         !.website = company.url]
    /\ delayed' = Sleep(delayed)
    /\ team_calls' = <<>>
    /\ team_response' = <<>>
    /\ all_links' = <<>>
    /\ ai' = 1
    /\ pc' = "home"
    /\ UNCHANGED <<search_queries, max_companies, qi, companies, ci, all_contacts,
                   contact_info, pushes, nfetch, last, fnvars>>

\* response = await client.get(company['url']) raises: the handler of lines
\* 199-202 returns None, and main goes to the next company
HomeFetchFails ==
    /\ pc = "home"
    /\ last' = [kind |-> "home", key |-> result.website, ok |-> FALSE]
    /\ nfetch' = nfetch + 1
    /\ delayed' = FALSE
    /\ contact_info' = <<>>
    /\ ci' = ci + 1
    /\ pc' = "company"
    /\ UNCHANGED <<search_queries, max_companies, qi, companies, all_contacts,
                   processed_domains, result, all_links, ai, pushes, visits,
                   team_calls, team_response, fnvars>>

\* lines 152-174: the homepage arrives; emails, phones, linkedin and all_links
HomeFetch ==
    /\ pc = "home"
    /\ \E response \in HomeResponses \ {FailedHome} :
          LET emails == Findall(EmailToks, response.text)
              phones == Findall(PhoneToks, response.text)
              joined == {PhoneJoin(phones[i]) : i \in DOMAIN phones}
              linkedin_links == SelectSeq(response.anchors, IsLinkedin)
          IN  /\ \E es \in SetSlice(Range(emails), 10), ps \in SetSlice(joined, 5) :
                    result' = [result EXCEPT
                                 !.emails = es,
                                 !.phones = ps,
                                 !.linkedin = IF linkedin_links # <<>>
                                              THEN linkedin_links[1].href ELSE <<>>]
              /\ all_links' = SelectSeq(response.anchors, HasHref)
    /\ last' = [kind |-> "home", key |-> result.website, ok |-> TRUE]
    /\ nfetch' = nfetch + 1
    /\ delayed' = FALSE
    /\ ai' = 1
    /\ pc' = "links"
    /\ UNCHANGED <<search_queries, max_companies, qi, companies, ci, all_contacts,
                   processed_domains, contact_info, pushes, visits, team_calls,
                   team_response, fnvars>>

\* lines 181-186: the link is a team/about link and about_url is not set yet;
\* set it and sleep before scrape_team_page
LinkAbout ==
    /\ pc = "links"
    /\ ai <= Len(all_links)
    /\ AnyKeyword(about_keywords, [href |-> all_links[ai].href[1], text |-> all_links[ai].text])
    /\ AboutUnset(result)
    /\ result' = [result EXCEPT !.about_url = <<urljoin(result.website, all_links[ai].href[1])>>]
    /\ delayed' = Sleep(delayed)
    /\ pc' = "team"
    /\ UNCHANGED <<search_queries, max_companies, qi, companies, ci, all_contacts,
                   processed_domains, contact_info, all_links, ai, pushes, nfetch,
                   last, visits, team_calls, team_response, fnvars>>

\* lines 187-193: scrape_team_page fetches and returns, then the contact test
\* of the same link
TeamFetch ==
    /\ pc = "team"
    /\ \E response \in TeamResponses :
          LET t == scrape_team_page(response)
              link == [href |-> all_links[ai].href[1], text |-> all_links[ai].text]
          IN  /\ team_response' = <<response>>
              /\ last' = [kind |-> "team", key |-> result.about_url[1], ok |-> response.ok]
              /\ IF t.raised
                 THEN /\ contact_info' = <<>>
                      /\ ci' = ci + 1
                      /\ pc' = "company"
                      /\ UNCHANGED <<result, ai>>
                 ELSE /\ result' = ContactStep([result EXCEPT !.team_members = t.value], link)
                      /\ ai' = ai + 1
                      /\ pc' = "links"
                      /\ UNCHANGED <<contact_info, ci>>
    /\ team_calls' = Append(team_calls, result.about_url[1])
    /\ nfetch' = nfetch + 1
    /\ delayed' = FALSE
    /\ UNCHANGED <<search_queries, max_companies, qi, companies, all_contacts,
                   processed_domains, all_links, pushes, visits, fnvars>>

\* lines 177-193 for a link that starts no team-page visit
LinkOther ==
    /\ pc = "links"
    /\ ai <= Len(all_links)
    /\ LET link == [href |-> all_links[ai].href[1], text |-> all_links[ai].text]
       IN  /\ ~(AnyKeyword(about_keywords, link) /\ AboutUnset(result))
           /\ result' = ContactStep(result, link)
    /\ ai' = ai + 1
    /\ UNCHANGED <<search_queries, max_companies, pc, qi, companies, ci, all_contacts,
                   processed_domains, contact_info, all_links, pushes, delayed, nfetch,
                   last, visits, team_calls, team_response, fnvars>>

\* lines 196-197 and 77-79: the record is returned, appended and pushed
EmitRecord ==
    /\ pc = "links"
    /\ ai > Len(all_links)
    /\ HasContactInfo(result)
    /\ contact_info' = <<result>>
    /\ all_contacts' = Append(all_contacts, result)
    /\ pushes' = Append(pushes, PushArg(Append(all_contacts, result), result))
    /\ ci' = ci + 1
    /\ pc' = "company"
    /\ UNCHANGED <<search_queries, max_companies, qi, companies, processed_domains,
                   result, all_links, ai, delayed, nfetch, last, visits, team_calls,
                   team_response, fnvars>>

\* lines 196 and 202: nothing was found, None is returned
DiscardRecord ==
    /\ pc = "links"
    /\ ai > Len(all_links)
    /\ ~HasContactInfo(result)
    /\ contact_info' = <<>>
    /\ ci' = ci + 1
    /\ pc' = "company"
    /\ UNCHANGED <<search_queries, max_companies, qi, companies, all_contacts,
                   processed_domains, result, all_links, ai, pushes, delayed, nfetch,
                   last, visits, team_calls, team_response, fnvars>>

Next ==
    \/ QueriesExhausted
    \/ BreakAtQuery
    \/ Search
    \/ CompaniesExhausted
    \/ BreakAtCompany
    \/ SkipProcessed
    \/ StartVisit
    \/ HomeFetchFails
    \/ HomeFetch
    \/ LinkAbout
    \/ TeamFetch
    \/ LinkOther
    \/ EmitRecord
    \/ DiscardRecord

Spec == Init /\ [][Next]_vars

-----------------------------------------------------------------------------
(* properties of main *)

\* a client.get is issued by the step
Fetches == nfetch' # nfetch

\* C1: within one run scrape_company_website is called at most once per domain
\* (netloc of the candidate url); the domain is in processed_domains before the
\* visit starts; processed_domains never loses a domain, whatever the visits yield
C1_VisitedOnce ==
    /\ [](/\ \A i, j \in DOMAIN visits : i # j => visits[i] # visits[j]
          /\ Range(visits) = processed_domains
          /\ pc \in {"home", "links", "team"} => Netloc(result.website) \in processed_domains)
    /\ [][processed_domains \subseteq processed_domains']_vars

\* a candidate was skipped for its domain although the first visit yielded nothing
C1_Witness ==
    /\ qi = 1
    /\ pc = "company"
    /\ ci - 1 > Len(visits)
    /\ Len(visits) >= 2
    /\ all_contacts = <<>>

\* C2: every record returned by scrape_company_website, and every record pushed
\* to the sink, has at least one of emails, phones, team_members non-empty
C2_NoEmptyRecord ==
    /\ \A i \in DOMAIN pushes : \A k \in DOMAIN pushes[i] :
          LET r == pushes[i][k]
          IN  r.emails # {} \/ r.phones # {} \/ r.team_members # <<>>
    /\ contact_info # <<>> =>
          \/ contact_info[1].emails # {}
          \/ contact_info[1].phones # {}
          \/ contact_info[1].team_members # <<>>

\* a visit whose homepage was fetched ended without a record, after another was pushed
C2_Witness ==
    /\ pc = "company"
    /\ last.kind = "home"
    /\ last.ok
    /\ contact_info = <<>>
    /\ result.emails = {} /\ result.phones = {} /\ result.team_members = <<>>
    /\ pushes # <<>>

\* C3: once len(all_contacts) has reached max_companies no step fetches or
\* pushes; the number of pushed records never exceeds max_companies; with
\* max_companies = 0 nothing is fetched and nothing is pushed
C3_StopsAtCap ==
    /\ [](/\ Len(pushes) <= max_companies
          /\ Len(all_contacts) <= max_companies
          /\ max_companies = 0 => (nfetch = 0 /\ pushes = <<>>))
    /\ [][Len(all_contacts) >= max_companies => (nfetch' = nfetch /\ pushes' = pushes)]_vars

\* the run ended at the cap with candidates and queries left
C3_Witness ==
    /\ pc = "done"
    /\ max_companies = 1
    /\ Len(pushes) = 1
    /\ qi <= Len(search_queries)
    /\ ci <= Len(companies)

\* C4: every push_data call carries exactly one record, the i-th call the i-th
\* record produced; the sink holds all_contacts at every point of the run, and
\* no record is pushed twice
C4_IncrementalPush ==
    /\ Len(pushes) = Len(all_contacts)
    /\ \A i \in DOMAIN pushes : pushes[i] = <<all_contacts[i]>>
    /\ \A i, j \in DOMAIN pushes : i # j => pushes[i] # pushes[j]
    /\ contact_info # <<>> => (pushes # <<>> /\ pushes[Len(pushes)] = contact_info)

\* a second record was pushed, and the first was in the sink while the visit
\* that produced the second ran
C4_Witness ==
    /\ Len(pushes) = 2
    /\ pushes[1] # pushes[2]
    /\ pc = "company"

\* index of the first of the first n links matching one of the keywords, 0 if none
FirstMatch(keywords, links, n) ==
    LET M == {i \in 1..n : AnyKeyword(keywords, [href |-> links[i].href[1],
                                                 text |-> links[i].text])}
    IN  IF M = {} THEN 0 ELSE CHOOSE i \in M : \A k \in M : i <= k

RECURSIVE InSectionOrder(_, _)
InSectionOrder(members, sections) ==
    IF members = <<>> THEN TRUE
    ELSE IF sections = <<>> THEN FALSE
    ELSE IF Head(sections).heads # <<>>
            /\ Head(members).name = <<Strip(Head(sections).heads[1])>>
         THEN InSectionOrder(Tail(members), Tail(sections))
         ELSE InSectionOrder(members, Tail(sections))

\* C8: every member scrape_team_page returned, and every member of every pushed
\* record, has a non-empty name; there are at most 20 members; the members
\* returned for a team page follow the order of its first 20 sections
C8_NamedMembers ==
    /\ \A i \in DOMAIN pushes : \A k \in DOMAIN pushes[i] :
          LET ms == pushes[i][k].team_members
          IN  /\ Len(ms) <= 20
              /\ \A m \in DOMAIN ms : ms[m].name # <<>> /\ ms[m].name[1] # <<>>
    /\ Len(result.team_members) <= 20
    /\ \A m \in DOMAIN result.team_members :
          result.team_members[m].name # <<>> /\ result.team_members[m].name[1] # <<>>
    /\ team_response # <<>> =>
          LET sections == team_response[1].sections
          IN  InSectionOrder(result.team_members,
                             SubSeq(sections, 1, IF Len(sections) < 20 THEN Len(sections) ELSE 20))

\* a team page with more than 20 qualifying sections gave 20 members, which
\* were pushed
C8_Witness ==
    /\ team_response # <<>>
    /\ Len(team_response[1].sections) > 20
    /\ Len(result.team_members) = 20
    /\ pushes # <<>>
    /\ pushes[Len(pushes)] = <<result>>

\* C7: no exception reaches main; after a failed search request companies is
\* empty; after a failed homepage fetch the visit returned None; after a failed
\* team-page fetch team_members is empty and the visit still returns the record
\* when the homepage gave emails or phones; the fetch that follows a failed
\* fetch is never the same request again
C7_FailuresContained ==
    /\ [](/\ pc # "crashed"
          /\ (last.kind = "search" /\ ~last.ok) =>
                (companies = <<>> /\ pc \in {"company", "query", "done"})
          /\ (last.kind = "home" /\ ~last.ok) =>
                (contact_info = <<>> /\ pc \in {"company", "query", "home", "done"})
          /\ (last.kind = "team" /\ ~last.ok) =>
                /\ result.team_members = <<>>
                /\ pc \in {"links", "company", "query", "home", "done"}
                /\ pc \in {"company", "query", "done"} =>
                      contact_info = IF result.emails # {} \/ result.phones # {}
                                     THEN <<result>> ELSE <<>>)
    /\ [][(Fetches /\ ~last.ok /\ last'.kind = last.kind) => last'.key # last.key]_vars

\* during the second query a team-page fetch failed and the record was still
\* returned and pushed
C7_Witness ==
    /\ last.kind = "team"
    /\ ~last.ok
    /\ pc = "company"
    /\ contact_info = <<result>>
    /\ pushes = <<contact_info>>
    /\ qi = 2

\* C10 (as amended): every homepage fetch and every team-page fetch is preceded
\* by a sleep that completed after the previous fetch; a search request is
\* never preceded by one
C10_DelayBeforeSiteFetch ==
    [][Fetches => (delayed <=> last'.kind \in {"home", "team"})]_vars

\* C10 (as claimed): every fetch, the search request included, is preceded by a
\* sleep that completed after the previous fetch
C10_DelayBeforeEveryFetch ==
    [][Fetches => delayed]_vars

\* a search, a homepage fetch and a team-page fetch have all happened
C10_Witness ==
    /\ nfetch >= 4
    /\ last.kind = "team"
    /\ qi = 2

-----------------------------------------------------------------------------
(* search_google as a function of its inputs *)

NoRet == [done |-> FALSE, raised |-> FALSE, value |-> <<>>]

InitSearch ==
    /\ InitMain
    /\ search_queries = <<>>
    /\ max_companies = 0
    /\ arg \in {[max_results |-> m, response |-> r] :
                    m \in MaxResultsInputs, r \in SearchResponses}
    /\ ret = NoRet

CallSearch ==
    /\ ~ret.done
    /\ LET r == search_google(arg.max_results, arg.response)
       IN  ret' = [done |-> TRUE, raised |-> r.raised, value |-> r.value]
    /\ UNCHANGED <<arg, mainvars>>

NextSearch == CallSearch

SpecSearch == InitSearch /\ [][NextSearch]_vars

\* line 112 for a url
Denylisted(url) ==
    \E k \in DOMAIN skip_domains : Contains(Lower(Netloc(url)), skip_domains[k])

\* the href of the anchor result.find('a') returns, empty if there is none
BlockHref(b) ==
    IF b.anchors # <<>> /\ b.anchors[1].href # <<>> THEN b.anchors[1].href[1] ELSE <<>>

\* a result block whose anchor has an http href with a parseable host
HttpBlock(b) == StartsWith(BlockHref(b), <<"http">>) /\ ~UrlparseRaises(BlockHref(b))

ValidBlock(b) == HttpBlock(b) /\ ~Denylisted(BlockHref(b))

DenylistedBlock(b) == HttpBlock(b) /\ Denylisted(BlockHref(b))

\* C5: for a response that arrived, search_google returns one candidate per
\* valid result block, with that block's url, in the order of the blocks, and
\* none for a block of a denylisted domain
C5_ValidBlocksInOrder ==
    (ret.done /\ arg.response.ok) =>
        LET valid == SelectSeq(arg.response.blocks, ValidBlock)
        IN  /\ Len(ret.value) = Len(valid)
            /\ \A i \in DOMAIN valid :
                  /\ ret.value[i].url = BlockHref(valid[i])
                  /\ ~Denylisted(ret.value[i].url)

\* two valid blocks of different urls with a denylisted block between them
C5_Witness ==
    /\ ret.done
    /\ arg.response.ok
    /\ Len(arg.response.blocks) = 3
    /\ ValidBlock(arg.response.blocks[1])
    /\ DenylistedBlock(arg.response.blocks[2])
    /\ BlockHref(arg.response.blocks[2]) # Lower(BlockHref(arg.response.blocks[2]))
    /\ ValidBlock(arg.response.blocks[3])
    /\ Len(ret.value) = 2
    /\ ret.value[1].url # ret.value[2].url

\* C6: search_google(query, max_results) returns at most max_results candidates
C6_AtMostMaxResults ==
    ret.done => Len(ret.value) <= arg.max_results

====
